---- MODULE Spec2Model ----
(***************************************************************************)
(* State-machine model of zero-etl.py: the provisioning chain              *)
(*   main -> create_source_cluster -> create_target_cluster                *)
(*        -> wait_for_cluster_availability (recursive) -> create_integration*)
(* The cloud backend (rds, redshift, sts clients) is the environment: each *)
(* API call either returns a response drawn from a small set or raises.    *)
(* The interpreter's call stack is modelled frame by frame; a call that    *)
(* would exceed the interpreter's recursion limit raises RecursionError.   *)
(***************************************************************************)
EXTENDS Integers, Sequences, FiniteSets, TLC

VARIABLES
    stack,        \* call stack, bottom first: frames [fn, i] (i = statement index in fn's body)
    crash,        \* "none", or the uncaught exception that ended the process
    calls,        \* log of backend API calls issued, in order: [op, ok]
    sleeps,       \* arguments of the time.sleep calls issued, in order
    source_arn,   \* create_source_cluster: local source_arn (line 74)
    tparams,      \* create_target_cluster: parameters bound at the call (line 75/85)
    target_arn,   \* create_target_cluster: local target_arn (line 121)
    account_id,   \* create_target_cluster: local account_id (line 125)
    policy,       \* arguments of the put_resource_policy call (lines 128-151)
    locals,       \* wait_for_cluster_availability: locals of the active frame
    iparams,      \* create_integration: parameters bound at the call (line 183/186)
    integration,  \* arguments of the rds.create_integration call (lines 189-193)
    backend,      \* history: what the backend answered (creation responses, current poll cycle)
    outcomes      \* history: per completed poll cycle, whether the backend answered
                  \* 'available' three times in that cycle

vars == <<stack, crash, calls, sleeps, source_arn, tparams, target_arn, account_id,
          policy, locals, iparams, integration, backend, outcomes>>

----------------------------------------------------------------------------
(* Bounds and value sets                                                   *)

\* Maximum depth of the interpreter's call stack (sys.getrecursionlimit();
\* 1000 by default in CPython, scaled down here).
RecursionLimit == 8

Unset == "<unset>"

\* Module-level configuration, lines 12-15.
source_cluster_name == "my-source-cluster"
source_param_group_name == "my-source-param-group"
target_cluster_name == "my-target-cluster"
target_param_group_name == "my-target-param-group"

\* Values the backend may put in its responses.
ClusterArns == {"arn:aws:rds:...:cluster:my-source-cluster", "arn:aws:rds:...:cluster:replaced"}
NamespaceArns == {"arn:aws:redshift:...:namespace:my-target-cluster", "arn:aws:redshift:...:namespace:replaced"}
Accounts == {"111111111111", "222222222222"}
Statuses == {"creating", "modifying", "available"}

----------------------------------------------------------------------------
(* Function bodies: the statements of each function, in program order.     *)

module_body == <<"main", "exit">>

main_body == <<"create_source_cluster", "wait_for_cluster_availability", "return">>

\* Mutant: the cluster is created before its parameter group.
create_source_cluster_body_cluster_first ==
    <<"rds.create_db_cluster",
      "rds.create_db_cluster_parameter_group",
      "rds.modify_db_cluster_parameter_group",
      "create_target_cluster",
      "rds.create_db_instance",
      "return">>

\* Mutant: the writer instance is created before the target is provisioned.
create_source_cluster_body_instance_first ==
    <<"rds.create_db_cluster_parameter_group",
      "rds.modify_db_cluster_parameter_group",
      "rds.create_db_cluster",
      "rds.create_db_instance",
      "create_target_cluster",
      "return">>

create_source_cluster_body ==
    <<"rds.create_db_cluster_parameter_group",
      "rds.modify_db_cluster_parameter_group",
      "rds.create_db_cluster",
      "create_target_cluster",
      "rds.create_db_instance",
      "return">>

create_target_cluster_body ==
    <<"redshift.create_cluster_parameter_group",
      "redshift.modify_cluster_parameter_group",
      "redshift.create_cluster",
      "redshift.describe_clusters",
      "sts.get_caller_identity",
      "redshift.put_resource_policy",
      "return">>

\* Mutant: the retry polls again at once, without sleeping.
wait_for_cluster_availability_body_no_sleep ==
    <<"rds.describe_db_clusters",
      "rds.describe_db_instances",
      "redshift.describe_clusters",
      "if",
      "wait_for_cluster_availability",
      "return",
      "create_integration",
      "return">>

\* Mutant: the integration step follows the if statement instead of being its
\* else-branch, so a frame falls into it when its recursive call returns.
wait_for_cluster_availability_body_fall_through ==
    <<"rds.describe_db_clusters",
      "rds.describe_db_instances",
      "redshift.describe_clusters",
      "if",
      "time.sleep",
      "wait_for_cluster_availability",
      "create_integration",
      "return">>

wait_for_cluster_availability_body ==
    <<"rds.describe_db_clusters",
      "rds.describe_db_instances",
      "redshift.describe_clusters",
      "if",
      "time.sleep",
      "wait_for_cluster_availability",
      "return",                 \* end of the if-branch: falls off the function
      "create_integration",     \* else-branch
      "return">>

create_integration_body == <<"rds.create_integration", "return">>

Body(fn) ==
    CASE fn = "<module>" -> module_body
      [] fn = "main" -> main_body
      [] fn = "create_source_cluster" -> create_source_cluster_body
      [] fn = "create_target_cluster" -> create_target_cluster_body
      [] fn = "wait_for_cluster_availability" -> wait_for_cluster_availability_body
      [] fn = "create_integration" -> create_integration_body

----------------------------------------------------------------------------
(* Interpreter helpers                                                     *)

Running == crash = "none" /\ stack # <<>>
Top == stack[Len(stack)]
\* The statement the active frame is about to execute, in function fn.
At(fn, stmt) == Running /\ Top.fn = fn /\ Body(fn)[Top.i] = stmt

\* A call of a Python function (ours or a client method) needs one more frame.
CanCall == Len(stack) + 1 <= RecursionLimit

Advance(s) == [s EXCEPT ![Len(s)].i = @ + 1]
Push(s, fn) == Append(s, [fn |-> fn, i |-> 1])
\* Return to the caller, which moves on to its next statement.
Pop(s) == Advance(SubSeq(s, 1, Len(s) - 1))
\* Jump of the active frame to the (unique) statement stmt of its body.
Goto(s, stmt) ==
    [s EXCEPT ![Len(s)].i = CHOOSE j \in 1..Len(Body(Top.fn)) : Body(Top.fn)[j] = stmt]

Log(op, ok) == Append(calls, [op |-> op, ok |-> ok])

\* An uncaught exception unwinds every frame and ends the process.
Raise(kind) == /\ crash' = kind
               /\ stack' = <<>>

NoLocals == [source_status |-> Unset, source_arn |-> Unset,
             source_instance_status |-> Unset,
             target_status |-> Unset, target_arn |-> Unset]

\* create_integration has not been called: its parameters are unbound.
NoIntegrationArgs == [source_arn |-> Unset, target_arn |-> Unset]

\* Nothing answered yet in the current poll cycle.
NoPoll == [DBClusterStatus |-> Unset, DBClusterArn |-> Unset,
           DBInstanceStatus |-> Unset,
           ClusterStatus |-> Unset, ClusterNamespaceArn |-> Unset]

Init ==
    /\ stack = <<[fn |-> "<module>", i |-> 1]>>
    /\ crash = "none"
    /\ calls = <<>>
    /\ sleeps = <<>>
    /\ source_arn = Unset
    /\ tparams = Unset
    /\ target_arn = Unset
    /\ account_id = Unset
    /\ policy = Unset
    /\ locals = NoLocals
    /\ iparams = NoIntegrationArgs
    /\ integration = Unset
    /\ backend = [DBClusterArn |-> Unset, ClusterNamespaceArn |-> Unset,
                  Account |-> Unset, poll |-> NoPoll]
    /\ outcomes = <<>>

----------------------------------------------------------------------------
(* Entry point                                                             *)

\* if __name__ == "__main__": main()
CallMain ==
    /\ At("<module>", "main") /\ CanCall
    /\ stack' = Push(stack, "main")
    /\ UNCHANGED <<crash, calls, sleeps, source_arn, tparams, target_arn, account_id,
                   policy, locals, iparams, integration, backend, outcomes>>

\* main: create_source_cluster(source_cluster_name, source_param_group_name)
CallCreateSourceCluster ==
    /\ At("main", "create_source_cluster") /\ CanCall
    /\ stack' = Push(stack, "create_source_cluster")
    /\ UNCHANGED <<crash, calls, sleeps, source_arn, tparams, target_arn, account_id,
                   policy, locals, iparams, integration, backend, outcomes>>

----------------------------------------------------------------------------
(* Backend calls whose response is only printed                            *)

\* Mutant: the exception of a failed call is swallowed and the chain goes on.
SimpleApi_swallow(fn, op) ==
    /\ At(fn, op) /\ CanCall
    /\ \E ok \in BOOLEAN : calls' = Log(op, ok)
    /\ stack' = Advance(stack)
    /\ UNCHANGED crash

\* The call is issued; it returns and the frame moves on, or it raises and
\* nothing catches the exception.
SimpleApi(fn, op) ==
    /\ At(fn, op) /\ CanCall
    /\ \/ /\ calls' = Log(op, TRUE)
          /\ stack' = Advance(stack)
          /\ UNCHANGED crash
       \/ /\ calls' = Log(op, FALSE)
          /\ Raise("ApiFault")

----------------------------------------------------------------------------
(* create_source_cluster                                                   *)

CreateSourceParamGroup ==
    /\ SimpleApi("create_source_cluster", "rds.create_db_cluster_parameter_group")
    /\ UNCHANGED <<sleeps, source_arn, tparams, target_arn, account_id,
                   policy, locals, iparams, integration, backend, outcomes>>

ModifySourceParamGroup ==
    /\ SimpleApi("create_source_cluster", "rds.modify_db_cluster_parameter_group")
    /\ UNCHANGED <<sleeps, source_arn, tparams, target_arn, account_id,
                   policy, locals, iparams, integration, backend, outcomes>>

\* response = rds.create_db_cluster(...); source_arn = response['DBCluster']['DBClusterArn']
CreateDbCluster ==
    /\ At("create_source_cluster", "rds.create_db_cluster") /\ CanCall
    /\ \/ \E arn \in ClusterArns :
            /\ calls' = Log("rds.create_db_cluster", TRUE)
            /\ backend' = [backend EXCEPT !.DBClusterArn = arn]
            /\ source_arn' = arn
            /\ stack' = Advance(stack)
            /\ UNCHANGED crash
       \/ /\ calls' = Log("rds.create_db_cluster", FALSE)
          /\ Raise("ApiFault")
          /\ UNCHANGED <<backend, source_arn>>
    /\ UNCHANGED <<sleeps, tparams, target_arn, account_id,
                   policy, locals, iparams, integration, outcomes>>

\* create_target_cluster(target_cluster_name, source_arn, target_param_group_name)
TargetArgs(arn) ==
    [target_cluster_name |-> target_cluster_name,
     source_arn |-> arn,
     target_param_group_name |-> target_param_group_name]

CallCreateTargetCluster ==
    /\ At("create_source_cluster", "create_target_cluster") /\ CanCall
    /\ stack' = Push(stack, "create_target_cluster")
    /\ tparams' = TargetArgs(source_arn)
    /\ UNCHANGED <<crash, calls, sleeps, source_arn, target_arn, account_id,
                   policy, locals, iparams, integration, backend, outcomes>>

CreateDbInstance ==
    /\ SimpleApi("create_source_cluster", "rds.create_db_instance")
    /\ UNCHANGED <<sleeps, source_arn, tparams, target_arn, account_id,
                   policy, locals, iparams, integration, backend, outcomes>>

----------------------------------------------------------------------------
(* create_target_cluster                                                   *)

CreateTargetParamGroup ==
    /\ SimpleApi("create_target_cluster", "redshift.create_cluster_parameter_group")
    /\ UNCHANGED <<sleeps, source_arn, tparams, target_arn, account_id,
                   policy, locals, iparams, integration, backend, outcomes>>

ModifyTargetParamGroup ==
    /\ SimpleApi("create_target_cluster", "redshift.modify_cluster_parameter_group")
    /\ UNCHANGED <<sleeps, source_arn, tparams, target_arn, account_id,
                   policy, locals, iparams, integration, backend, outcomes>>

CreateCluster ==
    /\ SimpleApi("create_target_cluster", "redshift.create_cluster")
    /\ UNCHANGED <<sleeps, source_arn, tparams, target_arn, account_id,
                   policy, locals, iparams, integration, backend, outcomes>>

\* target_arn = redshift.describe_clusters(...)['Clusters'][0]['ClusterNamespaceArn']
DescribeTargetNamespace ==
    /\ At("create_target_cluster", "redshift.describe_clusters") /\ CanCall
    /\ \/ \E arn \in NamespaceArns :
            /\ calls' = Log("redshift.describe_clusters", TRUE)
            /\ backend' = [backend EXCEPT !.ClusterNamespaceArn = arn]
            /\ target_arn' = arn
            /\ stack' = Advance(stack)
            /\ UNCHANGED crash
       \/ /\ calls' = Log("redshift.describe_clusters", FALSE)
          /\ Raise("ApiFault")
          /\ UNCHANGED <<backend, target_arn>>
    /\ UNCHANGED <<sleeps, source_arn, tparams, account_id,
                   policy, locals, iparams, integration, outcomes>>

\* account_id = sts.get_caller_identity()['Account']
GetCallerIdentity ==
    /\ At("create_target_cluster", "sts.get_caller_identity") /\ CanCall
    /\ \/ \E acct \in Accounts :
            /\ calls' = Log("sts.get_caller_identity", TRUE)
            /\ backend' = [backend EXCEPT !.Account = acct]
            /\ account_id' = acct
            /\ stack' = Advance(stack)
            /\ UNCHANGED crash
       \/ /\ calls' = Log("sts.get_caller_identity", FALSE)
          /\ Raise("ApiFault")
          /\ UNCHANGED <<backend, account_id>>
    /\ UNCHANGED <<sleeps, source_arn, tparams, target_arn,
                   policy, locals, iparams, integration, outcomes>>

\* The policy document of lines 130-149, cut at its two %s conversions.
PolicyTemplate ==
    <<"{Version:2012-10-17,Statement:[{Effect:Allow,Principal:{Service:redshift.amazonaws.com},Action:[redshift:AuthorizeInboundIntegration],Condition:{StringEquals:{aws:SourceArn:",
      "%s",
      "}}},{Effect:Allow,Principal:{AWS:arn:aws:iam::",
      "%s",
      ":root},Action:redshift:CreateInboundIntegration}]}">>

\* template % args: each %s conversion takes the next argument, left to right.
RECURSIVE Format(_, _)
Format(template, args) ==
    IF template = <<>> THEN <<>>
    ELSE IF Head(template) = "%s"
         THEN <<Head(args)>> \o Format(Tail(template), Tail(args))
         ELSE <<Head(template)>> \o Format(Tail(template), args)

\* Mutant: the two conversion arguments are given in the wrong order.
PolicyRequest_swapped ==
    [ResourceArn |-> target_arn,
     Policy |-> Format(PolicyTemplate, <<account_id, tparams.source_arn>>)]

\* Keyword arguments of redshift.put_resource_policy, lines 128-151.
PolicyRequest ==
    [ResourceArn |-> target_arn,
     Policy |-> Format(PolicyTemplate, <<tparams.source_arn, account_id>>)]

PutResourcePolicy ==
    /\ SimpleApi("create_target_cluster", "redshift.put_resource_policy")
    /\ policy' = PolicyRequest
    /\ UNCHANGED <<sleeps, source_arn, tparams, target_arn, account_id,
                   locals, iparams, integration, backend, outcomes>>

----------------------------------------------------------------------------
(* wait_for_cluster_availability                                           *)

\* main's call (line 199) and the recursive call (line 179): the arguments are
\* ignored (*args), the new frame starts with no local bound, and the caller
\* reads none of its own locals after the call.
EnterWaiter ==
    /\ CanCall
    /\ stack' = Push(stack, "wait_for_cluster_availability")
    /\ locals' = NoLocals
    /\ backend' = [backend EXCEPT !.poll = NoPoll]

CallWaiter ==
    /\ At("main", "wait_for_cluster_availability")
    /\ EnterWaiter
    /\ UNCHANGED <<crash, calls, sleeps, source_arn, tparams, target_arn, account_id,
                   policy, iparams, integration, outcomes>>

\* rds.describe_db_clusters: source_status, source_arn (lines 159-163)
PollSourceCluster ==
    /\ At("wait_for_cluster_availability", "rds.describe_db_clusters") /\ CanCall
    /\ \/ \E st \in Statuses, arn \in ClusterArns :
            /\ calls' = Log("rds.describe_db_clusters", TRUE)
            /\ backend' = [backend EXCEPT !.poll.DBClusterStatus = st,
                                          !.poll.DBClusterArn = arn]
            /\ locals' = [locals EXCEPT !.source_status = st, !.source_arn = arn]
            /\ stack' = Advance(stack)
            /\ UNCHANGED crash
       \/ /\ calls' = Log("rds.describe_db_clusters", FALSE)
          /\ Raise("ApiFault")
          /\ UNCHANGED <<backend, locals>>
    /\ UNCHANGED <<sleeps, source_arn, tparams, target_arn, account_id,
                   policy, iparams, integration, outcomes>>

\* rds.describe_db_instances: source_instance_status (lines 165-168)
PollSourceInstance ==
    /\ At("wait_for_cluster_availability", "rds.describe_db_instances") /\ CanCall
    /\ \/ \E st \in Statuses :
            /\ calls' = Log("rds.describe_db_instances", TRUE)
            /\ backend' = [backend EXCEPT !.poll.DBInstanceStatus = st]
            /\ locals' = [locals EXCEPT !.source_instance_status = st]
            /\ stack' = Advance(stack)
            /\ UNCHANGED crash
       \/ /\ calls' = Log("rds.describe_db_instances", FALSE)
          /\ Raise("ApiFault")
          /\ UNCHANGED <<backend, locals>>
    /\ UNCHANGED <<sleeps, source_arn, tparams, target_arn, account_id,
                   policy, iparams, integration, outcomes>>

AllAvailable(p) ==
    /\ p.DBClusterStatus = "available"
    /\ p.DBInstanceStatus = "available"
    /\ p.ClusterStatus = "available"

\* redshift.describe_clusters: target_status, target_arn (lines 170-174)
PollTargetCluster ==
    /\ At("wait_for_cluster_availability", "redshift.describe_clusters") /\ CanCall
    /\ \/ \E st \in Statuses, arn \in NamespaceArns :
            /\ calls' = Log("redshift.describe_clusters", TRUE)
            /\ backend' = [backend EXCEPT !.poll.ClusterStatus = st,
                                          !.poll.ClusterNamespaceArn = arn]
            /\ outcomes' = Append(outcomes, AllAvailable(backend'.poll))
            /\ locals' = [locals EXCEPT !.target_status = st, !.target_arn = arn]
            /\ stack' = Advance(stack)
            /\ UNCHANGED crash
       \/ /\ calls' = Log("redshift.describe_clusters", FALSE)
          /\ Raise("ApiFault")
          /\ UNCHANGED <<backend, locals, outcomes>>
    /\ UNCHANGED <<sleeps, source_arn, tparams, target_arn, account_id,
                   policy, iparams, integration>>

\* Mutant: the retry is taken only when nothing is available yet.
NotYetAvailable_all(l) ==
    /\ l.source_status # "available"
    /\ l.target_status # "available"
    /\ l.source_instance_status # "available"

\* The condition of line 177.
NotYetAvailable(l) ==
    \/ l.source_status # "available"
    \/ l.target_status # "available"
    \/ l.source_instance_status # "available"

\* if ...: the branch of lines 178-180 is taken
IfNotAvailable ==
    /\ At("wait_for_cluster_availability", "if")
    /\ NotYetAvailable(locals)
    /\ stack' = Advance(stack)
    /\ UNCHANGED <<crash, calls, sleeps, source_arn, tparams, target_arn, account_id,
                   policy, locals, iparams, integration, backend, outcomes>>

\* else: the branch of lines 182-184 is taken
ElseAvailable ==
    /\ At("wait_for_cluster_availability", "if")
    /\ ~NotYetAvailable(locals)
    /\ stack' = Goto(stack, "create_integration")
    /\ UNCHANGED <<crash, calls, sleeps, source_arn, tparams, target_arn, account_id,
                   policy, locals, iparams, integration, backend, outcomes>>

SleepSeconds == 60

\* time.sleep(60): a builtin, it takes no interpreter frame.
Sleep ==
    /\ At("wait_for_cluster_availability", "time.sleep")
    /\ sleeps' = Append(sleeps, SleepSeconds)
    /\ stack' = Advance(stack)
    /\ UNCHANGED <<crash, calls, source_arn, tparams, target_arn, account_id,
                   policy, locals, iparams, integration, backend, outcomes>>

\* response = wait_for_cluster_availability(source_cluster_name, target_cluster_name)
Recurse ==
    /\ At("wait_for_cluster_availability", "wait_for_cluster_availability")
    /\ EnterWaiter
    /\ UNCHANGED <<crash, calls, sleeps, source_arn, tparams, target_arn, account_id,
                   policy, iparams, integration, outcomes>>

\* Mutant: the ARNs noted during provisioning are passed, not the polled ones.
IntegrationArgs_provisioned(l) == [source_arn |-> source_arn, target_arn |-> target_arn]

\* create_integration(source_arn, target_arn)
IntegrationArgs(l) == [source_arn |-> l.source_arn, target_arn |-> l.target_arn]

CallCreateIntegration ==
    /\ At("wait_for_cluster_availability", "create_integration") /\ CanCall
    /\ stack' = Push(stack, "create_integration")
    /\ iparams' = IntegrationArgs(locals)
    /\ UNCHANGED <<crash, calls, sleeps, source_arn, tparams, target_arn, account_id,
                   policy, locals, integration, backend, outcomes>>

----------------------------------------------------------------------------
(* create_integration                                                      *)

\* Keyword arguments of rds.create_integration, lines 189-193.
IntegrationRequest ==
    [SourceArn |-> iparams.source_arn,
     TargetArn |-> iparams.target_arn,
     IntegrationName |-> "my-integration"]

CreateIntegration ==
    /\ SimpleApi("create_integration", "rds.create_integration")
    /\ integration' = IntegrationRequest
    /\ UNCHANGED <<sleeps, source_arn, tparams, target_arn, account_id,
                   policy, locals, iparams, backend, outcomes>>

----------------------------------------------------------------------------
(* Returns, exit, stack exhaustion                                         *)

\* A return statement, or the end of a function body: back to the caller.
Return ==
    /\ Running /\ Body(Top.fn)[Top.i] = "return"
    /\ stack' = Pop(stack)
    /\ UNCHANGED <<crash, calls, sleeps, source_arn, tparams, target_arn, account_id,
                   policy, locals, iparams, integration, backend, outcomes>>

\* The module body ends: the process terminates normally.
Exit ==
    /\ At("<module>", "exit")
    /\ stack' = <<>>
    /\ UNCHANGED <<crash, calls, sleeps, source_arn, tparams, target_arn, account_id,
                   policy, locals, iparams, integration, backend, outcomes>>

\* Statements that are no call of a Python function.
NoFrameStatements == {"if", "time.sleep", "return", "exit"}

\* A call with the stack already at its limit raises RecursionError before
\* anything of the callee runs: no request reaches the backend.
StackOverflow ==
    /\ Running /\ Body(Top.fn)[Top.i] \notin NoFrameStatements
    /\ ~CanCall
    /\ Raise("RecursionError")
    /\ UNCHANGED <<calls, sleeps, source_arn, tparams, target_arn, account_id,
                   policy, locals, iparams, integration, backend, outcomes>>

Next ==
    \/ CallMain
    \/ CallCreateSourceCluster
    \/ CreateSourceParamGroup
    \/ ModifySourceParamGroup
    \/ CreateDbCluster
    \/ CallCreateTargetCluster
    \/ CreateTargetParamGroup
    \/ ModifyTargetParamGroup
    \/ CreateCluster
    \/ DescribeTargetNamespace
    \/ GetCallerIdentity
    \/ PutResourcePolicy
    \/ CreateDbInstance
    \/ CallWaiter
    \/ PollSourceCluster
    \/ PollSourceInstance
    \/ PollTargetCluster
    \/ IfNotAvailable
    \/ ElseAvailable
    \/ Sleep
    \/ Recurse
    \/ CallCreateIntegration
    \/ CreateIntegration
    \/ Return
    \/ Exit
    \/ StackOverflow

Spec == Init /\ [][Next]_vars

----------------------------------------------------------------------------
(* Reading the call log                                                    *)

Indices(op) == {k \in DOMAIN calls : calls[k].op = op}
Issued(op) == Indices(op) # {}
Count(op) == Cardinality(Indices(op))
\* Position of the first call of op (0: never called).
First(op) == IF Issued(op) THEN CHOOSE k \in Indices(op) : \A j \in Indices(op) : k <= j ELSE 0
\* op was called, and its first call returned without raising.
Returned(op) == Issued(op) /\ calls[First(op)].ok
\* a was called and returned before b was first called.
ReturnedBefore(a, b) == Returned(a) /\ First(a) < First(b)

CreationOps ==
    {"rds.create_db_cluster_parameter_group", "rds.create_db_cluster",
     "rds.create_db_instance", "redshift.create_cluster_parameter_group",
     "redshift.create_cluster", "redshift.put_resource_policy",
     "rds.create_integration"}
TargetOps ==
    {"redshift.create_cluster_parameter_group", "redshift.modify_cluster_parameter_group",
     "redshift.create_cluster", "redshift.describe_clusters", "sts.get_caller_identity",
     "redshift.put_resource_policy"}
\* Calls made by provisioning only.
ProvisioningOps ==
    (CreationOps \ {"rds.create_integration"})
        \cup {"rds.modify_db_cluster_parameter_group",
              "redshift.modify_cluster_parameter_group", "sts.get_caller_identity"}
\* Calls made by the waiter only.
PollOps == {"rds.describe_db_clusters", "rds.describe_db_instances"}
\* Every backend operation the script uses; none of them deletes anything.
ApiOps == ProvisioningOps \cup PollOps \cup {"redshift.describe_clusters", "rds.create_integration"}

Done == stack = <<>> /\ crash = "none"
IntegrationInvoked == iparams # NoIntegrationArgs
LastOutcome == outcomes # <<>> /\ outcomes[Len(outcomes)]

----------------------------------------------------------------------------
(* Claims                                                                  *)

\* C1: create_integration is invoked only in a poll cycle whose own three
\* reads (source cluster, source instance, target cluster) were all
\* 'available'; reads of earlier cycles do not count.
C1_IntegrationOnlyWhenAllAvailable ==
    (IntegrationInvoked \/ Issued("rds.create_integration"))
        => /\ LastOutcome
           /\ AllAvailable(backend.poll)

\* C1 witness: the integration was requested in a cycle that followed two
\* cycles in which something was not available.
C1_Witness ==
    /\ Issued("rds.create_integration")
    /\ Len(outcomes) = 3
    /\ AllAvailable(backend.poll)

\* C2: each parameter group creation is issued, and has returned, before the
\* creation of the cluster that uses it is issued.
C2_ParamGroupBeforeCluster ==
    /\ Issued("rds.create_db_cluster")
          => ReturnedBefore("rds.create_db_cluster_parameter_group", "rds.create_db_cluster")
    /\ Issued("redshift.create_cluster")
          => ReturnedBefore("redshift.create_cluster_parameter_group", "redshift.create_cluster")

\* C2 witness: both cluster creation calls have been issued.
C2_Witness ==
    /\ Issued("rds.create_db_cluster")
    /\ Issued("redshift.create_cluster")

\* C3: if the first N poll cycles each read a status other than 'available'
\* and cycle N+1 reads three times 'available', then create_integration is
\* invoked after exactly N sleeps, each of 60, and no sleep follows.
C3_ExactlyNSleeps ==
    \A n \in 0..RecursionLimit :
        ( /\ IntegrationInvoked
          /\ Len(outcomes) = n + 1
          /\ \A k \in 1..n : ~outcomes[k]
          /\ outcomes[n + 1] )
        => /\ Len(sleeps) = n
           /\ \A k \in 1..n : sleeps[k] = 60

\* C3 witness: the integration step was reached after three failed cycles.
C3_Witness ==
    /\ IntegrationInvoked
    /\ Len(outcomes) = 4
    /\ Len(sleeps) = 3

\* C4: the policy passed to put_resource_policy is the document with the ARN
\* returned by create_db_cluster as aws:SourceArn and the account returned by
\* get_caller_identity as the principal, attached to the namespace ARN looked
\* up for the target cluster.
C4_PolicyReferences ==
    Issued("redshift.put_resource_policy")
        => /\ policy.ResourceArn = backend.ClusterNamespaceArn
           /\ policy.Policy = <<PolicyTemplate[1], backend.DBClusterArn,
                                PolicyTemplate[3], backend.Account,
                                PolicyTemplate[5]>>
           /\ backend.DBClusterArn \in ClusterArns
           /\ backend.Account \in Accounts

\* C4 witness: the policy call returned.
C4_Witness == Returned("redshift.put_resource_policy")

\* C5: the one create_integration call gets the source cluster ARN and the
\* namespace ARN the backend reported in the successful poll cycle, and the
\* name 'my-integration'.
C5_IntegrationArns ==
    Issued("rds.create_integration")
        => /\ Count("rds.create_integration") = 1
           /\ integration = [SourceArn |-> backend.poll.DBClusterArn,
                             TargetArn |-> backend.poll.ClusterNamespaceArn,
                             IntegrationName |-> "my-integration"]
           /\ AllAvailable(backend.poll)
           /\ backend.poll.DBClusterArn \in ClusterArns
           /\ backend.poll.ClusterNamespaceArn \in NamespaceArns

\* C5 witness: the integration was requested after a failed cycle, with ARNs
\* that differ from the ones provisioning had seen.
C5_Witness ==
    /\ Returned("rds.create_integration")
    /\ Len(outcomes) = 2
    /\ integration.SourceArn # backend.DBClusterArn
    /\ integration.TargetArn # backend.ClusterNamespaceArn

\* C6: a call that raises ends the process there: it is the last call ever
\* issued (no retry, no later step, no cleanup), nothing is deleted, and a
\* fault inside target provisioning leaves the writer instance, the polls and
\* the integration unissued.
C6_FaultTerminates ==
    /\ \A k \in DOMAIN calls :
          /\ calls[k].op \in ApiOps
          /\ ~calls[k].ok => /\ k = Len(calls)
                             /\ crash = "ApiFault"
                             /\ stack = <<>>
    /\ crash = "ApiFault" => /\ calls # <<>>
                             /\ ~calls[Len(calls)].ok
    /\ (crash = "ApiFault" /\ calls[Len(calls)].op \in TargetOps /\ ~Issued("rds.create_db_instance"))
          => /\ ~Issued("rds.describe_db_clusters")
             /\ ~Issued("rds.create_integration")
             /\ outcomes = <<>>
    /\ \A k \in DOMAIN calls :
          (~calls[k].ok /\ calls[k].op \in TargetOps \ {"redshift.describe_clusters"})
              => ~Issued("rds.create_db_instance")

\* C6 witness: the policy call raised after both clusters had been created.
C6_Witness ==
    /\ crash = "ApiFault"
    /\ calls[Len(calls)].op = "redshift.put_resource_policy"
    /\ Returned("rds.create_db_cluster")
    /\ Returned("redshift.create_cluster")

C8_StrictlyForward ==
    /\ \A op \in TargetOps :
          Issued(op) => ReturnedBefore("rds.create_db_cluster", op)
    /\ Issued("rds.create_db_instance")
          => \A op \in TargetOps : ReturnedBefore(op, "rds.create_db_instance")
    /\ Issued("rds.describe_db_clusters")
          => ReturnedBefore("rds.create_db_instance", "rds.describe_db_clusters")
    /\ \A k \in DOMAIN calls : \A j \in DOMAIN calls :
          (calls[k].op \in PollOps /\ k < j)
              => calls[j].op \in PollOps \cup {"redshift.describe_clusters", "rds.create_integration"}

\* C8 witness: a second poll cycle has started.
C8_Witness ==
    /\ Count("rds.describe_db_clusters") = 2
    /\ Returned("rds.create_db_instance")

\* C9: as long as the polls read something not available and no API call
\* faults, the waiter keeps polling: the process never stops on its own.
C9_NeverGivesUp ==
    ( /\ ~Running
      /\ \A k \in DOMAIN outcomes : ~outcomes[k] )
    => crash = "ApiFault"

\* C10: every creation call is issued at most once, whatever the number of
\* poll cycles, and no call other than the script's creating, modifying and
\* describing ones is issued.
C10_CreatedOnce ==
    /\ \A op \in CreationOps : Count(op) <= 1
    /\ \A k \in DOMAIN calls : calls[k].op \in ApiOps

\* C10 witness: the process ended normally after three nested waiter
\* invocations, with all seven creation calls issued.
C10_Witness ==
    /\ Done
    /\ Len(outcomes) = 3
    /\ \A op \in CreationOps : Count(op) = 1

====
